---- MODULE Spec2Model ----
(***************************************************************************)
(* vacationWX.  Three pages, each a program of its own, and the report     *)
(* generator the third one calls:                                          *)
(*   "search"    the location autocomplete script (src/unnamed/part_000)   *)
(*   "plain"     the plain-text button script     (src/unnamed/part_001)   *)
(*   "report"    the VacationWeather component    (src/docs/index.tsx)     *)
(*   "generator" pseudoRandom and generateMockData called directly         *)
(* The variable page says which one a behaviour runs; the variables of the *)
(* others keep their initial values.                                       *)
(*                                                                         *)
(* A page is single threaded: every listener, timer callback and fetch     *)
(* continuation runs to completion, so each is one action, and a           *)
(* synchronous call reads the clock once.  Text is a sequence of           *)
(* one-character strings.  Time is counted in milliseconds left on a       *)
(* pending timer.                                                          *)
(***************************************************************************)
EXTENDS Integers, Sequences, FiniteSets, TLC

VARIABLES
    inputValue,        \* locationInput.value
    selectedLocation,  \* let selectedLocation (part_000:11)
    timeoutId,         \* debounce's pending timer: NoTimer or the ms left on it
    innerHTML,         \* resultsContainer's children, in order
    hidden,            \* resultsContainer.classList contains 'hidden'
    messageOutput,     \* messageOutput: textContent and colour classes
    inflight,          \* fetch calls awaiting their response
    issued,            \* number of fetch calls made so far
    \* history variables: they record what happened, the code never reads them
    lastEvent,         \* the listener / callback that ran last, with its input
    lastEventValue,    \* input text at the most recent 'input' event
    longRuns,          \* debounced handler runs whose text had length >= 3
    phase,             \* "none" | "selected" | "typed" (typed after a selection)
    displayedReq,      \* id of the request whose candidates innerHTML shows (0: none)
    \* which program runs
    page,
    \* part_001
    plainLocation,     \* let location (part_001:10)
    plainMessage,      \* messageOutput of part_001: textContent and colour classes
    plainEvent,        \* history: the listener that ran last
    \* index.tsx, VacationWeather
    status,            \* useState 'idle' | 'loading' | 'success'
    data,              \* useState WeatherReportData | null
    timers,            \* pending setTimeout callbacks, oldest first
    submitted,         \* history: the input value of the latest submit
    reportEvent,       \* history: the handler that ran last
    \* pseudoRandom / generateMockData
    sinTable,          \* which sine function the run uses (see Sin)
    today,             \* the calendar day new Date() gives
    lastCall           \* history: the latest direct call and its result

vars == <<inputValue, selectedLocation, timeoutId, innerHTML, hidden,
          messageOutput, inflight, issued, lastEvent, lastEventValue,
          longRuns, phase, displayedReq>>

plainVars == <<plainLocation, plainMessage, plainEvent>>
reportVars == <<status, data, timers, submitted, reportEvent>>
genVars == <<sinTable, today, lastCall>>
allVars == <<vars, page, plainVars, reportVars, genVars>>

(***************************************************************************)
(* Bounds of the model.                                                    *)
(***************************************************************************)
MaxRequests == 2     \* fetch calls issued in one run
MaxResults == 2      \* candidates in one response (the request asks for <= Limit)
TicksPerDelay == 3   \* clock steps the debounce delay is divided into
DrawGrid == 4        \* a draw is a multiple of 1/DrawGrid
RandCount == 2       \* Math.random() gives one of 0, 0.1, ... (RandCount values)

(***************************************************************************)
(* Program constants.                                                      *)
(***************************************************************************)
DebounceDelay == 300
MinQueryLength == 3
Limit == 5
FractionDigits == 4
ForecastDays == 7
ReportDelay == 1500

NULL == [null |-> TRUE]   \* selectedLocation = null
NoTimer == -1             \* no debounce timer is pending
TickMs == DebounceDelay \div TicksPerDelay

Min(a, b) == IF a < b THEN a ELSE b

(***************************************************************************)
(* Text helpers.                                                           *)
(***************************************************************************)
IsWhiteSpace(c) == c = " "

RECURSIVE TrimStart(_)
TrimStart(s) ==
    IF s # <<>> /\ IsWhiteSpace(Head(s)) THEN TrimStart(Tail(s)) ELSE s

RECURSIVE TrimEnd(_)
TrimEnd(s) ==
    IF s # <<>> /\ IsWhiteSpace(s[Len(s)])
    THEN TrimEnd(SubSeq(s, 1, Len(s) - 1))
    ELSE s

Trim(s) == TrimEnd(TrimStart(s))

DigitChars == <<"0", "1", "2", "3", "4", "5", "6", "7", "8", "9">>

IsDigit(c) == \E i \in 1..Len(DigitChars) : DigitChars[i] = c

DigitVal(c) == (CHOOSE i \in 1..Len(DigitChars) : DigitChars[i] = c) - 1

RECURSIVE Pow10(_)
Pow10(n) == IF n = 0 THEN 1 ELSE 10 * Pow10(n - 1)

\* the longest prefix of s made of digits
RECURSIVE DigitPrefix(_)
DigitPrefix(s) ==
    IF s # <<>> /\ IsDigit(Head(s))
    THEN <<Head(s)>> \o DigitPrefix(Tail(s))
    ELSE <<>>

RECURSIVE DigitsValue(_)
DigitsValue(ds) ==
    IF ds = <<>> THEN 0
    ELSE 10 * DigitsValue(SubSeq(ds, 1, Len(ds) - 1)) + DigitVal(ds[Len(ds)])

\* decimal digits of the natural number n, most significant first
RECURSIVE DigitsOf(_)
DigitsOf(n) ==
    IF n < 10 THEN <<DigitChars[n + 1]>>
    ELSE DigitsOf(n \div 10) \o <<DigitChars[(n % 10) + 1]>>

RECURSIVE PadStart(_, _, _)
PadStart(s, n, c) == IF Len(s) >= n THEN s ELSE PadStart(<<c>> \o s, n, c)

(***************************************************************************)
(* Numbers.  A number is NaN or neg * mant / 10^scale, kept normalised     *)
(* (no trailing zero in the fraction) so that equal numbers are equal      *)
(* values.                                                                 *)
(***************************************************************************)
NaN == [nan |-> TRUE]

RECURSIVE Normalise(_)
Normalise(x) ==
    IF x.scale > 0 /\ x.mant % 10 = 0
    THEN Normalise([x EXCEPT !.mant = x.mant \div 10, !.scale = x.scale - 1])
    ELSE x

\* parseFloat: leading white space is skipped, then an optional sign, digits,
\* an optional fraction; anything after the longest numeric prefix is ignored;
\* no digit at all gives NaN.  (Exponents and "Infinity" are not modelled.)
parseFloat(s) ==
    LET t    == TrimStart(s)
        sgn  == t # <<>> /\ Head(t) \in {"-", "+"}
        neg  == t # <<>> /\ Head(t) = "-"
        u    == IF sgn THEN Tail(t) ELSE t
        int  == DigitPrefix(u)
        rest == SubSeq(u, Len(int) + 1, Len(u))
        frac == IF rest # <<>> /\ Head(rest) = "."
                THEN DigitPrefix(Tail(rest)) ELSE <<>>
    IN  IF int = <<>> /\ frac = <<>> THEN NaN
        ELSE Normalise([nan |-> FALSE, neg |-> neg,
                        mant |-> DigitsValue(int \o frac), scale |-> Len(frac)])

\* Number.prototype.toFixed(f): the nearest number with f fraction digits,
\* the larger one on a tie, always printed with f fraction digits.
toFixed(x, f) ==
    IF x.nan THEN <<"N", "a", "N">>
    ELSE LET n  == IF x.scale <= f
                   THEN x.mant * Pow10(f - x.scale)
                   ELSE (x.mant + 5 * Pow10(x.scale - f - 1)) \div Pow10(x.scale - f)
             ds == PadStart(DigitsOf(n), f + 1, "0")
             k  == Len(ds) - f
         IN  (IF x.neg /\ x.mant > 0 THEN <<"-">> ELSE <<>>)
             \o SubSeq(ds, 1, k) \o <<".">> \o SubSeq(ds, k + 1, Len(ds))

(***************************************************************************)
(* The search service (external): what a response may carry.               *)
(***************************************************************************)
LatTexts == << <<"3", "5", ".", "0", "1", "1", "6", "4">>, <<"-", "3", ".", "7">> >>
LonTexts == << <<"1", "3", "5", ".", "7", "6", "8", "1", "3">>, <<"4", "0">> >>

\* display names: "kyoto", "kyoto, 2", "kyoto, 3", ...
NameOf(i) ==
    <<"k", "y", "o", "t", "o">> \o (IF i = 1 THEN <<>> ELSE <<",", " ">> \o DigitsOf(i))

Place(i) ==
    [display_name |-> NameOf(i),
     lat |-> IF i <= Len(LatTexts) THEN LatTexts[i] ELSE DigitsOf(i) \o <<".", "5">>,
     lon |-> IF i <= Len(LonTexts) THEN LonTexts[i] ELSE <<"-">> \o DigitsOf(i)]

\* the first n places, as the JSON array of an ok response
Places(n) == [i \in 1..n |-> Place(i)]

Outcomes(req) ==
    {[kind |-> "ok", data |-> Places(n)] : n \in 0..Min(MaxResults, req.limit)}
    \cup {[kind |-> k, data |-> <<>>] : k \in {"http-error", "network-error"}}

(***************************************************************************)
(* DOM values.                                                             *)
(***************************************************************************)
ResultItem(location) ==
    [className |-> "result-item",
     textContent |-> location.display_name,
     dataset |-> [lat |-> location.lat, lon |-> location.lon,
                  name |-> location.display_name]]

ErrorDiv ==
    [className |-> "p-3 text-gray-500", textContent |-> "Could not fetch results."]

NoMessage == [textContent |-> <<>>, classes |-> {}]

SelectMessage ==
    [textContent |-> <<"Please type a location and select it from the list.">>,
     classes |-> {"text-red-500"}]

GeneratingMessage(sel) ==
    [textContent |-> <<"Generating report for: ">> \o sel.name
                     \o <<" (Lat: ">> \o toFixed(sel.lat, FractionDigits)
                     \o <<", Lon: ">> \o toFixed(sel.lon, FractionDigits)
                     \o <<")">>,
     classes |-> {"text-green-600"}]

IsResultItem(e) == e.className = "result-item"

ShowsCandidates == \E k \in 1..Len(innerHTML) : IsResultItem(innerHTML[k])
ShowsError == \E k \in 1..Len(innerHTML) : innerHTML[k] = ErrorDiv

(***************************************************************************)
(* The values the variables of a page keep while another page runs.        *)
(***************************************************************************)
PlainIdle ==
    /\ plainLocation = <<>>
    /\ plainMessage = NoMessage
    /\ plainEvent = [name |-> "load"]

ReportIdle ==
    /\ status = "idle"
    /\ data = NULL
    /\ timers = <<>>
    /\ submitted = <<>>
    /\ reportEvent = [name |-> "load"]

GenIdle ==
    /\ sinTable = 0
    /\ today = [year |-> 1970, month |-> 1, day |-> 1]
    /\ lastCall = [fn |-> "none"]

(***************************************************************************)
(* Initial state: the DOMContentLoaded listener has run (part_000:2-11).   *)
(* The markup is not part of the sources, so the container may start with  *)
(* or without the 'hidden' class.                                          *)
(***************************************************************************)
SearchIdle ==
    /\ inputValue = <<>>
    /\ selectedLocation = NULL
    /\ timeoutId = NoTimer
    /\ innerHTML = <<>>
    /\ messageOutput = NoMessage
    /\ inflight = {}
    /\ issued = 0
    /\ lastEvent = [name |-> "load"]
    /\ lastEventValue = <<>>
    /\ longRuns = 0
    /\ phase = "none"
    /\ displayedReq = 0

Init ==
    /\ SearchIdle
    /\ hidden \in BOOLEAN
    /\ page = "search"
    /\ PlainIdle
    /\ ReportIdle
    /\ GenIdle

(***************************************************************************)
(* handleLocationSearch up to its first await (part_000:26-36).            *)
(***************************************************************************)
Request(query) == [id |-> issued + 1, query |-> query, limit |-> Limit]

\* mutant: the threshold is off by one (<= instead of <)
HandleLocationSearchOffByOne(query) ==
    IF Len(query) <= MinQueryLength
    THEN /\ innerHTML' = <<>>
         /\ hidden' = TRUE
         /\ UNCHANGED <<inflight, issued>>
    ELSE /\ inflight' = inflight \cup {Request(query)}
         /\ issued' = issued + 1
         /\ UNCHANGED <<innerHTML, hidden>>

\* mutant: the length is taken of the trimmed text
HandleLocationSearchTrimmed(query) ==
    IF Len(Trim(query)) < MinQueryLength
    THEN /\ innerHTML' = <<>>
         /\ hidden' = TRUE
         /\ UNCHANGED <<inflight, issued>>
    ELSE /\ inflight' = inflight \cup {Request(query)}
         /\ issued' = issued + 1
         /\ UNCHANGED <<innerHTML, hidden>>

HandleLocationSearch(query) ==
    IF Len(query) < MinQueryLength
    THEN /\ innerHTML' = <<>>
         /\ hidden' = TRUE
         /\ UNCHANGED <<inflight, issued>>
    ELSE /\ inflight' = inflight \cup {Request(query)}
         /\ issued' = issued + 1
         /\ UNCHANGED <<innerHTML, hidden>>

(***************************************************************************)
(* displayResults (part_000:50-84) and the catch branch (part_000:42-46).  *)
(***************************************************************************)
\* mutant: the container is not emptied before the entries are added
DisplayResultsAppends(locations) ==
    /\ innerHTML' = innerHTML \o [k \in 1..Len(locations) |-> ResultItem(locations[k])]
    /\ hidden' = (Len(locations) = 0)

DisplayResults(locations) ==
    /\ innerHTML' = [k \in 1..Len(locations) |-> ResultItem(locations[k])]
    /\ hidden' = (Len(locations) = 0)

\* mutant: the message is added after whatever the container shows
CatchErrorAppends ==
    /\ innerHTML' = Append(innerHTML, ErrorDiv)
    /\ hidden' = FALSE

CatchError ==
    /\ innerHTML' = <<ErrorDiv>>
    /\ hidden' = FALSE

\* mutant: a response is dropped unless it answers the latest request
HandleResponseLatestOnly(req, out) ==
    /\ IF req.id # issued THEN UNCHANGED <<innerHTML, hidden>>
       ELSE IF out.kind = "ok" THEN DisplayResults(out.data) ELSE CatchError
    /\ inflight' = inflight \ {req}
    /\ UNCHANGED issued

\* mutant: a failed request is sent again
HandleResponseRetry(req, out) ==
    /\ IF out.kind = "ok" THEN DisplayResults(out.data) ELSE CatchError
    /\ IF out.kind = "ok"
       THEN inflight' = inflight \ {req} /\ UNCHANGED issued
       ELSE /\ inflight' = (inflight \ {req}) \cup {Request(req.query)}
            /\ issued' = issued + 1

\* handleLocationSearch after the await: the response req got is handled
\* whatever was issued since; a failure is reported and nothing is re-sent.
HandleResponse(req, out) ==
    /\ IF out.kind = "ok" THEN DisplayResults(out.data) ELSE CatchError
    /\ inflight' = inflight \ {req}
    /\ UNCHANGED issued

(***************************************************************************)
(* The document click listener (part_000:94-98): the new value of hidden,  *)
(* given the click's target and the value the earlier listeners left.      *)
(***************************************************************************)
ContainerContains(target) == target \in {"item", "message"}

\* mutant: the listener hides the list whatever was clicked
DocumentClickAnywhere(target, h) == TRUE

DocumentClick(target, h) ==
    IF ~ContainerContains(target) /\ target # "input" THEN TRUE ELSE h

(***************************************************************************)
(* The generate button's listener (part_000:101-120).                      *)
(***************************************************************************)
\* mutant: without a selection the typed text is used, as in part_001
GenerateButtonClickFallsBack(sel, text) ==
    IF sel # NULL THEN GeneratingMessage(sel)
    ELSE IF Trim(text) # <<>>
         THEN [textContent |-> <<"Generating report for: ">> \o text \o <<"...">>,
               classes |-> {"text-green-600"}]
         ELSE SelectMessage

GenerateButtonClick(sel, text) ==
    IF sel # NULL THEN GeneratingMessage(sel) ELSE SelectMessage

(***************************************************************************)
(* The function debounce wraps (part_000:87-91).  event.target.value is    *)
(* read when the timer fires.                                              *)
(***************************************************************************)
DebouncedCallback ==
    /\ selectedLocation' = NULL
    /\ HandleLocationSearch(inputValue)
    /\ lastEvent' = [name |-> "timer", query |-> inputValue]

(***************************************************************************)
(* Actions.                                                                *)
(***************************************************************************)
\* What the user may leave in the box by one edit (typing, deleting, pasting):
\* nothing, a text shorter than the threshold, texts of threshold length
\* (plain, with a trailing blank, all blank), and the first place's name.
TypedTexts ==
    {<<>>, <<"k", "y">>, <<"k", "y", "o">>, <<"k", "y", " ">>, <<" ", " ", " ">>,
     NameOf(1)}

Edits(text) == TypedTexts \ {text}

\* The user edits the box: an 'input' event.  The debounce wrapper
\* (part_000:17-22) clears the pending timer and sets a new one.  (The user
\* stops typing once MaxRequests requests were issued.)
InputEvent(v) ==
    /\ issued < MaxRequests
    /\ inputValue' = v
    /\ timeoutId' = DebounceDelay
    /\ lastEvent' = [name |-> "input"]
    /\ lastEventValue' = v
    /\ phase' = IF phase = "selected" THEN "typed" ELSE phase
    /\ UNCHANGED <<selectedLocation, innerHTML, hidden, messageOutput, inflight,
                   issued, longRuns, displayedReq>>

\* Time passes while the timer is pending.
Tick ==
    /\ timeoutId > 0
    /\ timeoutId' = timeoutId - Min(TickMs, timeoutId)
    /\ lastEvent' = [name |-> "tick"]
    /\ UNCHANGED <<inputValue, selectedLocation, innerHTML, hidden, messageOutput,
                   inflight, issued, lastEventValue, longRuns, phase, displayedReq>>

\* The timer is due: the debounced function runs.
TimerFire ==
    /\ timeoutId = 0
    /\ timeoutId' = NoTimer
    /\ DebouncedCallback
    /\ longRuns' = IF Len(inputValue) >= MinQueryLength THEN longRuns + 1 ELSE longRuns
    /\ displayedReq' = IF Len(inputValue) < MinQueryLength THEN 0 ELSE displayedReq
    /\ UNCHANGED <<inputValue, messageOutput, lastEventValue, phase>>

\* A fetch settles: ok with a list of candidates, or a failure (a non-ok
\* status, a transport error, a body that is no JSON array: all reach catch).
FetchSettle(req, out) ==
    /\ HandleResponse(req, out)
    /\ lastEvent' = [name |-> "response", id |-> req.id, kind |-> out.kind,
                      data |-> out.data, overError |-> ShowsError]
    /\ displayedReq' = IF \E k \in 1..Len(innerHTML') : IsResultItem(innerHTML'[k])
                       THEN (IF out.kind = "ok" /\ out.data # <<>> THEN req.id
                             ELSE displayedReq)
                       ELSE 0
    /\ UNCHANGED <<inputValue, selectedLocation, timeoutId, messageOutput,
                   lastEventValue, longRuns, phase>>

\* mutant: every entry's listener selects the first entry
ResultItemClickFirst(k) ==
    /\ ~hidden
    /\ IsResultItem(innerHTML[k])
    /\ selectedLocation' = [name |-> innerHTML[1].dataset.name,
                            lat |-> parseFloat(innerHTML[1].dataset.lat),
                            lon |-> parseFloat(innerHTML[1].dataset.lon)]
    /\ inputValue' = selectedLocation'.name
    /\ innerHTML' = <<>>
    /\ hidden' = DocumentClick("detached", TRUE)
    /\ lastEvent' = [name |-> "select", k |-> k]
    /\ phase' = "selected"
    /\ displayedReq' = 0
    /\ UNCHANGED <<timeoutId, messageOutput, inflight, issued, lastEventValue,
                   longRuns>>

\* A click on entry k of the shown list: its own listener (part_000:66-78),
\* then the document listener, for which the entry is no longer in the
\* container.
ResultItemClick(k) ==
    /\ ~hidden
    /\ IsResultItem(innerHTML[k])
    /\ selectedLocation' = [name |-> innerHTML[k].dataset.name,
                            lat |-> parseFloat(innerHTML[k].dataset.lat),
                            lon |-> parseFloat(innerHTML[k].dataset.lon)]
    /\ inputValue' = selectedLocation'.name
    /\ innerHTML' = <<>>
    /\ hidden' = DocumentClick("detached", TRUE)
    /\ lastEvent' = [name |-> "select", k |-> k]
    /\ phase' = "selected"
    /\ displayedReq' = 0
    /\ UNCHANGED <<timeoutId, messageOutput, inflight, issued, lastEventValue,
                   longRuns>>

\* A click that only the document listener handles: on the page body, on the
\* input box, or on the error message inside the container.
PageClick(target) ==
    /\ target = "message" => ~hidden /\ ShowsError
    /\ hidden' = DocumentClick(target, hidden)
    /\ lastEvent' = [name |-> "click", target |-> target]
    /\ UNCHANGED <<inputValue, selectedLocation, timeoutId, innerHTML,
                   messageOutput, inflight, issued, lastEventValue,
                   longRuns, phase, displayedReq>>

\* A click on the generate button: its listener, then the document listener.
GenerateClick ==
    /\ messageOutput' = GenerateButtonClick(selectedLocation, inputValue)
    /\ hidden' = DocumentClick("button", hidden)
    /\ lastEvent' = [name |-> "generate", closed |-> ~hidden /\ hidden']
    /\ UNCHANGED <<inputValue, selectedLocation, timeoutId, innerHTML, inflight,
                   issued, lastEventValue, longRuns, phase,
                   displayedReq>>

\* the script runs on its own page and touches nothing else
OnSearchPage ==
    /\ page = "search"
    /\ UNCHANGED <<page, plainVars, reportVars, genVars>>

Next ==
    \/ OnSearchPage /\ \E v \in Edits(inputValue) : InputEvent(v)
    \/ OnSearchPage /\ Tick
    \/ OnSearchPage /\ TimerFire
    \/ OnSearchPage /\ \E req \in inflight : \E out \in Outcomes(req) :
                           FetchSettle(req, out)
    \/ OnSearchPage /\ \E k \in 1..Len(innerHTML) : ResultItemClick(k)
    \/ OnSearchPage /\ \E target \in {"body", "input", "message"} : PageClick(target)
    \/ OnSearchPage /\ GenerateClick

Spec == Init /\ [][Next]_allVars

(***************************************************************************)
(* Properties of the autocomplete script.                                  *)
(***************************************************************************)
Timer == lastEvent'.name = "timer"
Response == lastEvent'.name = "response"
Generate == lastEvent'.name = "generate"
ClickOn(target) == lastEvent' = [name |-> "click", target |-> target]

\* C1: every input event restarts the 300ms timer; the debounced handler runs
\* only when the timer set by the last input event has run its 300ms, once
\* (the timer is then spent), and it searches for the text of that last event.
C1_DebounceLastValue ==
    [][/\ lastEvent'.name = "input" => timeoutId' = 300
       /\ Timer => /\ timeoutId = 0
                   /\ timeoutId' = NoTimer
                   /\ lastEvent'.query = lastEventValue
       /\ issued' # issued => Timer]_vars

\* C2: a click on the generate button made after a selection was followed by
\* a keystroke (and by no new selection) shows the validation message, however
\* soon after the keystroke it comes.
C2_TypingClearsSelection ==
    [][Generate /\ phase = "typed" => messageOutput' = SelectMessage]_vars

\* C3: a held selection is set back to null only once a keystroke was made
\* after the selection.
C3_SelectionPersists ==
    [][selectedLocation # NULL /\ selectedLocation' = NULL => phase = "typed"]_vars

\* C4: no response is discarded as stale: an ok response with candidates
\* replaces the shown list with its candidates and shows it, whether or not a
\* newer request has been issued (or answered) since its own.
C4_NoStaleGuard ==
    [][Response /\ lastEvent'.kind = "ok" /\ lastEvent'.data # <<>>
       => /\ Len(innerHTML') = Len(lastEvent'.data)
          /\ \A k \in 1..Len(innerHTML') :
                /\ IsResultItem(innerHTML'[k])
                /\ innerHTML'[k].textContent = lastEvent'.data[k].display_name
          /\ ~hidden']_vars

\* C4 witness: the list shows the candidates of request 1 although request 2
\* was issued later and has already been answered.
C4_StaleListShown ==
    /\ lastEvent.name = "response"
    /\ lastEvent.id = 1
    /\ issued = 2
    /\ inflight = {}
    /\ ShowsCandidates
    /\ ~hidden
    /\ displayedReq = 1

Place1Message ==
    <<"Generating report for: ", "k", "y", "o", "t", "o",
      " (Lat: ", "3", "5", ".", "0", "1", "1", "6",
      ", Lon: ", "1", "3", "5", ".", "7", "6", "8", "1", ")">>

\* C5: the generate click looks at the held selection only: held, the message
\* is "Generating report for: <name> (Lat: <lat, 4 digits>, Lon: <lon, 4
\* digits>)" of the selection; not held, it is the validation message, whatever
\* the box contains.
C5_GenerateBranchesOnSelection ==
    [][Generate =>
        IF selectedLocation # NULL
        THEN /\ messageOutput'.classes = {"text-green-600"}
             /\ messageOutput'.textContent =
                    <<"Generating report for: ">> \o selectedLocation.name
                    \o <<" (Lat: ">> \o toFixed(selectedLocation.lat, 4)
                    \o <<", Lon: ">> \o toFixed(selectedLocation.lon, 4) \o <<")">>
             /\ selectedLocation.name = NameOf(1)
                    => messageOutput'.textContent = Place1Message
        ELSE /\ messageOutput'.classes = {"text-red-500"}
             /\ messageOutput'.textContent =
                    <<"Please type a location and select it from the list.">>]_vars

\* C5 witness: generate was clicked with text in the box and no selection held.
C5_ClickedWithTextOnly ==
    /\ lastEvent.name = "generate"
    /\ selectedLocation = NULL
    /\ Len(Trim(inputValue)) >= 3
    /\ messageOutput = SelectMessage

\* C6: when the debounced handler runs (the timer has run out) with a text
\* shorter than 3 it issues no request and leaves the list empty and hidden;
\* with a text of length 3 or more it issues exactly one request, for that text.
C6_ThresholdThree ==
    [][Timer =>
        /\ timeoutId = 0
        /\ IF Len(lastEvent'.query) < 3
           THEN /\ inflight' = inflight
                /\ issued' = issued
                /\ innerHTML' = <<>>
                /\ hidden'
           ELSE /\ issued' = issued + 1
                /\ inflight \subseteq inflight'
                /\ Cardinality(inflight' \ inflight) = 1
                /\ \A r \in inflight' \ inflight : r.query = lastEvent'.query]_vars

\* C6 witness: the handler ran with "kyo" and its one request is in flight.
C6_KyoRequested ==
    /\ lastEvent = [name |-> "timer", query |-> <<"k", "y", "o">>]
    /\ issued = 1
    /\ \E r \in inflight : r.query = <<"k", "y", "o">>

\* C7 as claimed: a handler run whose trimmed text is shorter than 3 issues no
\* request.
C7_TrimmedLengthDecides ==
    [][Timer /\ Len(Trim(lastEvent'.query)) < 3
       => issued' = issued /\ inflight' = inflight]_vars

\* C7 as amended: the length check is made on the text as typed: a run with
\* fewer than 3 characters issues no request, a run with 3 or more characters
\* issues one, also when fewer than 3 remain after trimming.
C7_RawLengthDecides ==
    [][Timer => /\ Len(lastEvent'.query) < 3 => issued' = issued
                /\ Len(lastEvent'.query) >= 3 /\ Len(Trim(lastEvent'.query)) < 3
                       => issued' = issued + 1]_vars

\* C7 witness: "ky " (trimmed length 2) was searched for and requested.
C7_BlankPaddedRequested ==
    /\ lastEvent = [name |-> "timer", query |-> <<"k", "y", " ">>]
    /\ \E r \in inflight : r.query = <<"k", "y", " ">> /\ r.id = issued

\* C8: an ok response without candidates leaves the container empty and
\* hidden, without the error message; a failed request leaves the container
\* shown with the error message as its only content (no candidate stays).
C8_ResponseOutcome ==
    [][Response =>
        /\ lastEvent'.kind = "ok" /\ lastEvent'.data = <<>>
               => innerHTML' = <<>> /\ hidden'
        /\ lastEvent'.kind # "ok"
               => /\ innerHTML' = <<ErrorDiv>>
                  /\ ~hidden'
                  /\ \A k \in 1..Len(innerHTML') : ~IsResultItem(innerHTML'[k])]_vars

\* C8 witness: the second request failed and the error message is shown.
C8_ErrorShown ==
    /\ lastEvent.name = "response"
    /\ lastEvent.kind = "network-error"
    /\ lastEvent.id = 2
    /\ innerHTML = <<ErrorDiv>>
    /\ ~hidden

\* C9: requests are issued only by runs of the debounced handler with a text
\* of length 3 or more, one per run; a failed request is removed and nothing
\* is sent in its place.
C9_NoRetry ==
    /\ [](issued <= longRuns)
    /\ [][/\ issued' # issued
              => Timer /\ Len(lastEvent'.query) >= 3 /\ issued' = issued + 1
          /\ Response /\ lastEvent'.kind # "ok"
              => issued' = issued /\ Cardinality(inflight') = Cardinality(inflight) - 1]_vars

\* C9 witness: a request failed and none is in flight.
C9_FailedAndQuiet ==
    /\ lastEvent.name = "response"
    /\ lastEvent.kind = "http-error"
    /\ inflight = {}
    /\ issued = longRuns
    /\ issued >= 1

\* C10: a click outside the list and the box hides the list and leaves the
\* selection, the text, the pending timer (and the list's content, the message
\* and the requests) as they were; a click on the box or inside the container
\* changes nothing.
C10_ClickOutsideOnlyHides ==
    [][/\ ClickOn("body")
           => /\ hidden'
              /\ UNCHANGED <<selectedLocation, inputValue, timeoutId, innerHTML,
                             messageOutput, inflight, issued>>
       /\ ClickOn("input") \/ ClickOn("message")
           => UNCHANGED <<hidden, selectedLocation, inputValue, timeoutId,
                          innerHTML, messageOutput, inflight, issued>>]_vars

\* C10 witness: a list in the container was hidden by a click outside while
\* a selection was held, and both are still there.
C10_HiddenByClickOutside ==
    /\ lastEvent = [name |-> "click", target |-> "body"]
    /\ hidden
    /\ ShowsCandidates
    /\ selectedLocation # NULL
    /\ inputValue = selectedLocation.name

\* the number neg * mant / 10^scale
Decimal(neg, mant, scale) == [nan |-> FALSE, neg |-> neg, mant |-> mant, scale |-> scale]

\* the coordinates the service gives for place k, as numbers: 35.01164 and
\* 135.76813, -3.7 and 40, then k + 0.5 and -k
PlaceCoordinates(k) ==
    CASE k = 1 -> [lat |-> Decimal(FALSE, 3501164, 5), lon |-> Decimal(FALSE, 13576813, 5)]
      [] k = 2 -> [lat |-> Decimal(TRUE, 37, 1), lon |-> Decimal(FALSE, 40, 0)]
      [] OTHER -> [lat |-> Decimal(FALSE, 10 * k + 5, 1), lon |-> Decimal(TRUE, k, 0)]

\* C16: selecting candidate k of the shown list sets the selection to exactly
\* candidate k's display name, latitude and longitude, writes the name into
\* the input box and leaves the list empty and hidden; writing the box this
\* way starts no debounce timer and does not clear the selection.
C16_SelectionIsCandidateK ==
    [][lastEvent'.name = "select" =>
          /\ selectedLocation' = [name |-> NameOf(lastEvent'.k),
                                  lat  |-> PlaceCoordinates(lastEvent'.k).lat,
                                  lon  |-> PlaceCoordinates(lastEvent'.k).lon]
          /\ innerHTML[lastEvent'.k] = ResultItem(Place(lastEvent'.k))
          /\ inputValue' = NameOf(lastEvent'.k)
          /\ innerHTML' = <<>>
          /\ hidden'
          /\ timeoutId' = timeoutId
          /\ lastEventValue' = lastEventValue]_vars

\* C16 witness: the second candidate of a list was selected
C16_SecondSelected ==
    /\ lastEvent = [name |-> "select", k |-> 2]
    /\ selectedLocation # NULL
    /\ selectedLocation.name = NameOf(2)
    /\ inputValue = NameOf(2)
    /\ innerHTML = <<>>
    /\ hidden

\* C18: no error is fatal.  While the message 'Could not fetch results.' is
\* shown every handler is as ready as without it, a response that succeeds
\* with N > 0 candidates puts exactly these N candidates in place of the
\* message, and a debounced search with a text shorter than 3 characters
\* empties and hides the container.
C18_ErrorNotFatal ==
    /\ [][ShowsError =>
            /\ (Response /\ lastEvent'.kind = "ok" /\ lastEvent'.data # <<>>) =>
                  /\ innerHTML' = [k \in 1..Len(lastEvent'.data) |->
                                      ResultItem(lastEvent'.data[k])]
                  /\ ~hidden'
            /\ (Timer /\ Len(lastEvent'.query) < 3) =>
                  /\ innerHTML' = <<>>
                  /\ hidden']_vars
    /\ [](ShowsError =>
            /\ ENABLED GenerateClick
            /\ \A target \in {"body", "input"} : ENABLED PageClick(target)
            /\ ~hidden => ENABLED PageClick("message")
            /\ issued < MaxRequests =>
                  \A v \in Edits(inputValue) : ENABLED InputEvent(v)
            /\ timeoutId > 0 => ENABLED Tick
            /\ timeoutId = 0 => ENABLED TimerFire
            /\ \A req \in inflight : \A out \in Outcomes(req) :
                  ENABLED FetchSettle(req, out))

\* C18 witness: candidates are shown by a response that arrived while the
\* error message was shown
C18_RecoveredFromError ==
    /\ lastEvent.name = "response"
    /\ lastEvent.overError
    /\ lastEvent.kind = "ok"
    /\ Len(lastEvent.data) > 0
    /\ ShowsCandidates
    /\ ~ShowsError
    /\ ~hidden

\* C19: whenever a selection is held and nothing was typed since, the list is
\* hidden and empty.
C19_SelectionKeepsListClosed ==
    (selectedLocation # NULL /\ phase = "selected") =>
        /\ hidden
        /\ innerHTML = <<>>

(***************************************************************************)
(*                                                                         *)
(* pseudoRandom and generateMockData (src/docs/index.tsx).                 *)
(*                                                                         *)
(***************************************************************************)

(***************************************************************************)
(* JavaScript numbers that are integers beyond 31 bits: hi * 2^16 + lo     *)
(* with 0 <= lo < 2^16, hi of either sign.                                 *)
(***************************************************************************)
Limb == 256 * 256
Half == Limb \div 2

Big(hi, lo) == [hi |-> hi, lo |-> lo]
BigOf(n) == Big(n \div Limb, n % Limb)

BigAdd(a, b) ==
    Big(a.hi + b.hi + ((a.lo + b.lo) \div Limb), (a.lo + b.lo) % Limb)

BigSub(a, b) ==
    Big(a.hi - b.hi + ((a.lo - b.lo) \div Limb), (a.lo - b.lo) % Limb)

\* ToInt32: the value modulo 2^32, as a signed 32-bit integer
ToInt32(a) == Big(((a.hi + Half) % Limb) - Half, a.lo)

\* x << 5: the operand is converted by ToInt32, the result is a signed 32-bit
\* integer
ShiftLeft5(a) ==
    LET x == ToInt32(a)
    IN  ToInt32(Big(x.hi * 32 + ((x.lo * 32) \div Limb), (x.lo * 32) % Limb))

\* String.prototype.charCodeAt, for the characters the model's strings use
CharCode(c) ==
    CASE c = " " -> 32
      [] c = "," -> 44
      [] c = "." -> 46
      [] IsDigit(c) -> 48 + DigitVal(c)
      [] c = "K" -> 75
      [] c = "M" -> 77
      [] c = "a" -> 97
      [] c = "i" -> 105
      [] c = "k" -> 107
      [] c = "o" -> 111
      [] c = "t" -> 116
      [] c = "u" -> 117
      [] c = "y" -> 121

\* one turn of the loop: hash = seed.charCodeAt(i) + ((hash << 5) - hash);
\* the subtraction and the addition are number operations: nothing wraps them
HashStep(hash, c) == BigAdd(BigOf(CharCode(c)), BigSub(ShiftLeft5(hash), hash))

\* the values hash takes: HashTrace(seed)[i] after character i
RECURSIVE HashTrace(_)
HashTrace(seed) ==
    IF seed = <<>> THEN <<>>
    ELSE LET before == HashTrace(SubSeq(seed, 1, Len(seed) - 1))
             prev   == IF before = <<>> THEN BigOf(0) ELSE before[Len(before)]
         IN  Append(before, HashStep(prev, seed[Len(seed)]))

HashLoop(seed) == IF seed = <<>> THEN BigOf(0) ELSE HashTrace(seed)[Len(seed)]

\* the arguments of the direct calls of pseudoRandom and of generateMockData
Seeds ==
    {<<>>,
     <<"a">>,
     <<"k", "y", "o", "t", "o", "0">>,
     <<"M", "a", "u", "i", "0", ".", "1">>,
     <<"K", "y", "o", "t", "o", " ", "0", ".", "1">>}

Locations == {<<"M", "a", "u", "i">>, <<"k", "y", "o", "t", "o">>}

\* the seeds these calls hash, and their hashes computed once
HashedSeeds ==
    Seeds
    \cup {location \o <<DigitChars[i]>> :
             location \in Locations, i \in 1..Len(DigitChars)}
    \cup {location \o <<"0", ".", DigitChars[i]>> :
             location \in Locations, i \in 1..Len(DigitChars)}

HashTable == [seed \in HashedSeeds |-> HashLoop(seed)]

Hash(seed) == IF seed \in HashedSeeds THEN HashTable[seed] ELSE HashLoop(seed)

(***************************************************************************)
(* Math.sin of an integer is not computed here.  A run fixes one sine      *)
(* function out of a family (sinTable) in which every argument but 0 takes *)
(* every value of the grid: a sign, and |sin x| * 10000 = whole + part /   *)
(* DrawGrid with whole one of 0 and 9999.  sin 0 = 0.                      *)
(***************************************************************************)
SineCount == 4 * DrawGrid

SineAt(j) ==
    [neg   |-> j % 2 = 1,
     whole |-> IF (j \div 2) % 2 = 1 THEN 9999 ELSE 0,
     part  |-> (j \div 4) % DrawGrid]

Sin(x) ==
    IF x = BigOf(0) THEN [neg |-> FALSE, whole |-> 0, part |-> 0]
    ELSE SineAt((x.hi + x.lo + sinTable) % SineCount)

\* Math.abs(Math.sin(hash) * 10000) % 1, in units of 1/DrawGrid.  The product
\* is sign * (whole + part/DrawGrid); % keeps the sign of its left operand.
Magnitude(s) == [s EXCEPT !.neg = FALSE]

Remainder1(p) == IF p.neg THEN 0 - p.part ELSE p.part

\* mutant: Math.abs is left out
pseudoRandomSigned(seed) == Remainder1(Sin(Hash(seed)))

pseudoRandom(seed) == Remainder1(Magnitude(Sin(Hash(seed))))

(***************************************************************************)
(* Draws are kept in units of 1/DrawGrid: the draw d stands for the number *)
(* d / DrawGrid, and so does every quantity computed from draws until      *)
(* Math.floor is applied.                                                  *)
(***************************************************************************)
Units(n) == n * DrawGrid

Floor(u) == u \div DrawGrid

\* array[index] with a number as index: undefined outside the array
At(array, index) ==
    IF index \in 0..(Len(array) - 1) THEN array[index + 1] ELSE "undefined"

\* Number.prototype.toString of a number (also what string + number appends)
NumberToString(x) ==
    IF x.nan THEN <<"N", "a", "N">>
    ELSE LET ds == PadStart(DigitsOf(x.mant), x.scale + 1, "0")
             k  == Len(ds) - x.scale
         IN  (IF x.neg /\ x.mant > 0 THEN <<"-">> ELSE <<>>)
             \o SubSeq(ds, 1, k)
             \o (IF x.scale = 0 THEN <<>> ELSE <<".">> \o SubSeq(ds, k + 1, Len(ds)))

Number(n) ==
    [nan |-> FALSE, neg |-> n < 0, mant |-> IF n < 0 THEN 0 - n ELSE n, scale |-> 0]

\* String.prototype.toUpperCase, for the characters the model's strings use
ToUpperCase(c) ==
    CASE c = "a" -> "A"
      [] c = "i" -> "I"
      [] c = "k" -> "K"
      [] c = "o" -> "O"
      [] c = "t" -> "T"
      [] c = "u" -> "U"
      [] c = "y" -> "Y"
      [] OTHER -> c

\* location.charAt(0).toUpperCase() + location.slice(1)
Capitalise(location) ==
    IF location = <<>> THEN <<>>
    ELSE <<ToUpperCase(Head(location))>> \o Tail(location)

(***************************************************************************)
(* Math.random(): the values 0, 0.1, 0.2, ...  One call of generateMockData*)
(* consumes RngCalls of them.                                              *)
(***************************************************************************)
MathRandom(j) == Normalise([nan |-> FALSE, neg |-> FALSE, mant |-> j, scale |-> 1])

RngCalls == 13

RandomRuns ==
    {[n \in 1..RngCalls |-> MathRandom((start + stride * n) % RandCount)] :
        start \in 0..(RandCount - 1), stride \in {0, 1}}

(***************************************************************************)
(* Calendar days, and Date.prototype.setDate.                              *)
(***************************************************************************)
IsLeapYear(y) == y % 4 = 0 /\ (y % 100 # 0 \/ y % 400 = 0)

DaysInMonth(y, m) ==
    IF m = 2 THEN (IF IsLeapYear(y) THEN 29 ELSE 28)
    ELSE IF m \in {4, 6, 9, 11} THEN 30 ELSE 31

\* setDate(n), n >= 1: day n of the date's month; days past the end of the
\* month run on into the months that follow
RECURSIVE setDate(_, _)
setDate(date, n) ==
    IF n <= DaysInMonth(date.year, date.month)
    THEN [date EXCEPT !.day = n]
    ELSE setDate([year  |-> IF date.month = 12 THEN date.year + 1 ELSE date.year,
                  month |-> IF date.month = 12 THEN 1 ELSE date.month + 1,
                  day   |-> 1],
                 n - DaysInMonth(date.year, date.month))

NextDay(date) == setDate(date, date.day + 1)

\* new Date() is evaluated once for each forecast entry and once more for
\* generatedAt.  The calls are made one after the other: they all fall on one
\* day, or midnight passes after the first half of them.
ClockReads == ForecastDays + 1

Clocks ==
    {[n \in 1..ClockReads |-> IF n <= before THEN today ELSE NextDay(today)] :
        before \in {ClockReads \div 2, ClockReads}}

(***************************************************************************)
(* generateMockData.                                                       *)
(***************************************************************************)
conditions == <<"Sunny", "Cloudy", "Rainy", "Partly Cloudy">>

windDirs == <<"N", "NE", "E", "SE", "S", "SW", "W", "NW">>

\* const date = new Date(); date.setDate(date.getDate() + i + 1);
ForecastDate(now, i) == setDate(now, now.day + i + 1)

\* mutant: the day's draw is seeded with the base temperature
DailyForecastReseeded(location, baseTemp, now, i) ==
    LET dayRng == pseudoRandom(location \o NumberToString(Number(Floor(baseTemp))))
    IN  [date          |-> ForecastDate(now, i),
         lowTemp       |-> Floor(baseTemp - Units(5) - dayRng * 5),
         highTemp      |-> Floor(baseTemp + dayRng * 5),
         condition     |-> At(conditions, Floor(dayRng * Len(conditions))),
         precipitation |-> Floor(dayRng * 100)]

\* mutant: the low is not lowered by 5
DailyForecastNoGap(location, baseTemp, now, i) ==
    LET dayRng == pseudoRandom(location \o NumberToString(Number(i)))
    IN  [date          |-> ForecastDate(now, i),
         lowTemp       |-> Floor(baseTemp - dayRng * 5),
         highTemp      |-> Floor(baseTemp + dayRng * 5),
         condition     |-> At(conditions, Floor(dayRng * Len(conditions))),
         precipitation |-> Floor(dayRng * 100)]

\* one entry of the forecast: i counts from 0
DailyForecast(location, baseTemp, now, i) ==
    LET dayRng == pseudoRandom(location \o NumberToString(Number(i)))
    IN  [date          |-> ForecastDate(now, i),
         lowTemp       |-> Floor(baseTemp - Units(5) - dayRng * 5),
         highTemp      |-> Floor(baseTemp + dayRng * 5),
         condition     |-> At(conditions, Floor(dayRng * Len(conditions))),
         precipitation |-> Floor(dayRng * 100)]

\* mutant: the offset 40 is left out
HumidityNoBase(draw) == Floor(draw * 50)

Humidity(draw) == Floor(Units(40) + draw * 50)

Pressure(draw) == Floor(Units(980) + draw * 40)

UvIndex(draw) == Floor(draw * 11)

\* random[n] is what the n-th call of Math.random() returns and clock[n] what
\* the n-th new Date() returns, in the order of evaluation
generateMockData(location, random, clock) ==
    LET rng(n)   == pseudoRandom(location \o NumberToString(random[n]))
        baseTemp == Units(15) + rng(1) * 20
        currentCondition == At(conditions, Floor(rng(2) * Len(conditions)))
        forecast ==
            [d \in 1..ForecastDays |->
                DailyForecast(location, baseTemp, clock[d], d - 1)]
    IN  [location    |-> Capitalise(location),
         coordinates |->
            [lat  |-> toFixed(Number(Floor(rng(3) * 180) - 90), FractionDigits),
             long |-> toFixed(Number(Floor(rng(4) * 360) - 180), FractionDigits)],
         generatedAt |-> clock[ClockReads],
         reportId    |-> <<"R", "P", "T", "-">>
                         \o PadStart(NumberToString(Number(Floor(rng(5) * 1000000))), 6, "0"),
         current     |->
            [temp       |-> Floor(baseTemp),
             feelsLike  |-> Floor(baseTemp + rng(6) * 4 - Units(2)),
             condition  |-> currentCondition,
             humidity   |-> Humidity(rng(7)),
             windSpeed  |-> Floor(rng(8) * 30),
             windDir    |-> At(windDirs, Floor(rng(9) * 8)),
             pressure   |-> Pressure(rng(10)),
             visibility |-> Floor(Units(5) + rng(11) * 15),
             uvIndex    |-> UvIndex(rng(12)),
             dewPoint   |-> Floor(baseTemp - rng(13) * 10)],
         forecast    |-> forecast]

(***************************************************************************)
(* The generator page: pseudoRandom and generateMockData are called        *)
(* directly, any number of times, with arguments of the sets below.  The   *)
(* sine function and the calendar day are those of the run.                *)
(***************************************************************************)
Dates ==
    {[year |-> 2023, month |-> 2, day |-> 24],
     [year |-> 2024, month |-> 2, day |-> 25],
     [year |-> 2023, month |-> 12, day |-> 27]}

GenLoaded ==
    /\ sinTable \in 0..(SineCount - 1)
    /\ today \in Dates
    /\ lastCall = [fn |-> "none"]

InitGen ==
    /\ SearchIdle
    /\ hidden = TRUE
    /\ page = "generator"
    /\ PlainIdle
    /\ ReportIdle
    /\ GenLoaded

\* the fields of a report that the reseeded generator fills
ReportLevel(report) ==
    <<report.coordinates, report.reportId, report.current>>

CallPseudoRandom(seed) ==
    /\ page = "generator"
    /\ lastCall' = [fn     |-> "pseudoRandom",
                    seed   |-> seed,
                    hashes |-> HashTrace(seed),
                    result |-> pseudoRandom(seed),
                    again  |-> lastCall.fn = "pseudoRandom" /\ lastCall.seed = seed]
    /\ UNCHANGED <<sinTable, today, vars, page, plainVars, reportVars>>

CallGenerateMockData(location, random, clock) ==
    /\ page = "generator"
    /\ LET report == generateMockData(location, random, clock)
           again  == lastCall.fn = "generateMockData" /\ lastCall.location = location
       IN  lastCall' = [fn       |-> "generateMockData",
                        location |-> location,
                        result   |-> report,
                        again    |-> again,
                        changed  |-> again /\ ReportLevel(report)
                                                # ReportLevel(lastCall.result)]
    /\ UNCHANGED <<sinTable, today, vars, page, plainVars, reportVars>>

NextGen ==
    \/ \E seed \in Seeds : CallPseudoRandom(seed)
    \/ \E location \in Locations : \E random \in RandomRuns : \E clock \in Clocks :
          CallGenerateMockData(location, random, clock)

SpecGen == InitGen /\ [][NextGen]_allVars

(***************************************************************************)
(*                                                                         *)
(* The plain variant (src/unnamed/part_001).                               *)
(*                                                                         *)
(***************************************************************************)
EnterMessage ==
    [textContent |-> <<"Please enter a location first.">>,
     classes |-> {"text-red-500"}]

PlainGeneratingMessage(location) ==
    [textContent |-> <<"Generating report for: ">> \o location \o <<"...">>,
     classes |-> {"text-green-600"}]

\* mutant: the text is tested without trim()
PlainButtonClickUntrimmed(location) ==
    IF location # <<>> THEN PlainGeneratingMessage(location) ELSE EnterMessage

\* the button's listener (part_001:18-37): the message it leaves
PlainButtonClick(location) ==
    IF Trim(location) # <<>> THEN PlainGeneratingMessage(location) ELSE EnterMessage

InitPlain ==
    /\ SearchIdle
    /\ hidden = TRUE
    /\ page = "plain"
    /\ PlainIdle
    /\ ReportIdle
    /\ GenIdle

OnPlainPage ==
    /\ page = "plain"
    /\ UNCHANGED <<page, vars, reportVars, genVars>>

\* an 'input' event (part_001:13-15)
PlainInputEvent(v) ==
    /\ plainLocation' = v
    /\ plainEvent' = [name |-> "input"]
    /\ UNCHANGED plainMessage

\* a click on the button (part_001:18-37)
PlainGenerateClick ==
    /\ plainMessage' = PlainButtonClick(plainLocation)
    /\ plainEvent' = [name |-> "generate"]
    /\ UNCHANGED plainLocation

NextPlain ==
    \/ OnPlainPage /\ \E v \in Edits(plainLocation) : PlainInputEvent(v)
    \/ OnPlainPage /\ PlainGenerateClick

(***************************************************************************)
(*                                                                         *)
(* The report UI: VacationWeather (src/docs/index.tsx:117-).               *)
(*                                                                         *)
(***************************************************************************)
\* what the user may leave in the box by one edit
ReportTexts == {<<>>, <<" ", " ", " ">>} \cup Locations

\* disabled={status === 'loading'}
InputDisabled == status = "loading"

\* mutant: the button is disabled for blank text only
ButtonDisabledBlankOnly == Trim(inputValue) = <<>>

\* disabled={status === 'loading' || !inputValue.trim()}
ButtonDisabled == status = "loading" \/ Trim(inputValue) = <<>>

ReportTickMs == ReportDelay \div TicksPerDelay

InitReport ==
    /\ SearchIdle
    /\ hidden = TRUE
    /\ page = "report"
    /\ PlainIdle
    /\ ReportIdle
    /\ GenLoaded

OnReportPage ==
    /\ page = "report"
    /\ UNCHANGED <<page, selectedLocation, timeoutId, innerHTML, hidden,
                   messageOutput, inflight, issued, lastEvent, lastEventValue,
                   longRuns, phase, displayedReq, plainVars, sinTable, today,
                   lastCall>>

\* onChange: the box is editable unless it is disabled
ChangeInput(v) ==
    /\ ~InputDisabled
    /\ inputValue' = v
    /\ reportEvent' = [name |-> "change"]
    /\ UNCHANGED <<status, data, timers, submitted>>

\* handleGenerate (index.tsx:122-132); the timer's callback keeps the
\* inputValue of the render the handler belongs to
handleGenerate ==
    IF Trim(inputValue) = <<>>
    THEN UNCHANGED <<status, timers>>
    ELSE /\ status' = "loading"
         /\ timers' = Append(timers, [left |-> ReportDelay, inputValue |-> inputValue])

\* The form is submitted: by a click on the submit button or by Enter in the
\* box, both of which the browser allows only while the button is enabled.
Submit ==
    /\ ~ButtonDisabled
    /\ handleGenerate
    /\ submitted' = inputValue
    /\ reportEvent' = [name |-> "submit"]
    /\ UNCHANGED <<inputValue, data>>

\* Time passes while timers are pending and none is due.
ReportTick ==
    /\ timers # <<>>
    /\ \A n \in 1..Len(timers) : timers[n].left > 0
    /\ timers' = [n \in 1..Len(timers) |->
                    [timers[n] EXCEPT !.left = @ - Min(ReportTickMs, @)]]
    /\ reportEvent' = [name |-> "tick"]
    /\ UNCHANGED <<inputValue, status, data, submitted>>

\* a timer is due
TimerDue == timers # <<>> /\ timers[1].left = 0

\* mutant: the callback sets the status and forgets the data
TimerCallbackNoData(timer, random, clock) ==
    /\ data' = data
    /\ status' = "success"

\* the callback of setTimeout (index.tsx:129-130)
TimerCallback(timer, random, clock) ==
    /\ data' = generateMockData(timer.inputValue, random, clock)
    /\ status' = "success"

\* The oldest timer is due: its callback runs.
ReportTimerFire ==
    /\ TimerDue
    /\ \E random \in RandomRuns : \E clock \in Clocks :
          TimerCallback(timers[1], random, clock)
    /\ timers' = Tail(timers)
    /\ reportEvent' = [name |-> "timer", inputValue |-> timers[1].inputValue]
    /\ UNCHANGED <<inputValue, submitted>>

NextReport ==
    \/ OnReportPage /\ \E v \in ReportTexts \ {inputValue} : ChangeInput(v)
    \/ OnReportPage /\ Submit
    \/ OnReportPage /\ ReportTick
    \/ OnReportPage /\ ReportTimerFire

\* Time does not stop, and a timer that is due has its callback run: weak
\* fairness of ReportTick and of ReportTimerFire.  The callback is enabled
\* exactly when a timer is due, and its fairness is written with that guard
\* in the place of ENABLED.
SpecReport ==
    /\ InitReport
    /\ [][NextReport]_allVars
    /\ WF_allVars(OnReportPage /\ ReportTick)
    /\ \/ []<>(~TimerDue)
       \/ []<><<OnReportPage /\ ReportTimerFire>>_allVars

(***************************************************************************)
(* The three pages side by side: a run is a run of one of them.            *)
(***************************************************************************)
InitPages == Init \/ InitPlain \/ InitReport

NextPages == Next \/ NextPlain \/ NextReport

SpecPages == InitPages /\ [][NextPages]_allVars

(***************************************************************************)
(* Claims about the three pages (SpecPages) and the report UI (SpecReport).*)
(***************************************************************************)
PlainGenerate == plainEvent'.name = "generate"
Submitted == reportEvent'.name = "submit"

\* C14 as stated: generating without a qualifying location shows the
\* validation message and changes nothing else.  Plain page: blank text gives
\* 'Please enter a location first.', the stored location stays.  Search page:
\* without selection the validation message is shown, selectedLocation and
\* the candidate list (its entries and whether it is shown) stay.  Report UI:
\* a submit with blank text leaves status and data as they were.
C14_ValidationWithoutMutation ==
    [][/\ (PlainGenerate /\ Trim(plainLocation) = <<>>) =>
             /\ plainMessage' = EnterMessage
             /\ plainLocation' = plainLocation
       /\ (Generate /\ selectedLocation = NULL) =>
             /\ messageOutput' = SelectMessage
             /\ selectedLocation' = selectedLocation
             /\ innerHTML' = innerHTML
             /\ hidden' = hidden
       /\ (Submitted /\ Trim(inputValue) = <<>>) =>
             /\ status' = status
             /\ data' = data]_allVars

\* C14 amended: as above, except that on the search page the click on the
\* button also closes the candidate list (its entries stay, it is hidden
\* afterwards), and that in the report UI no submit happens with blank text
\* at all: the submit button is disabled then and nothing is shown.
C14_ValidationClosesList ==
    [][/\ (PlainGenerate /\ Trim(plainLocation) = <<>>) =>
             /\ plainMessage' = EnterMessage
             /\ plainLocation' = plainLocation
       /\ (Generate /\ selectedLocation = NULL) =>
             /\ messageOutput' = SelectMessage
             /\ selectedLocation' = selectedLocation
             /\ innerHTML' = innerHTML
             /\ hidden'
             /\ UNCHANGED <<inputValue, timeoutId, inflight, issued>>
       /\ Submitted => Trim(inputValue) # <<>>
       /\ (page = "report" /\ Trim(inputValue) = <<>>) =>
             /\ ButtonDisabled
             /\ status' = status
             /\ data' = data]_allVars

\* C14 witness: without selection, a click on the button showed the
\* validation message and closed the list of candidates that was open
C14_ListClosedByGenerate ==
    /\ lastEvent = [name |-> "generate", closed |-> TRUE]
    /\ selectedLocation = NULL
    /\ messageOutput = SelectMessage
    /\ ShowsCandidates
    /\ hidden

\* C20: a submit with non-blank input moves status to 'loading'; every
\* 'loading' state is followed, when the 1500ms timer fires, by 'success' with
\* data the report generated for the submitted input value; status =
\* 'success' implies data is not null; status never returns to 'idle'.
C20_StatusMachine ==
    /\ [][(Submitted /\ Trim(inputValue) # <<>>) =>
            /\ status' = "loading"
            /\ timers' = Append(timers, [left |-> 1500, inputValue |-> inputValue])]_allVars
    /\ (status = "loading") ~>
            (/\ status = "success"
             /\ data # NULL
             /\ data.location = Capitalise(submitted))
    /\ [][reportEvent'.name = "timer" =>
            /\ status' = "success"
            /\ \E random \in RandomRuns : \E clock \in Clocks :
                  data' = generateMockData(submitted, random, clock)]_allVars
    /\ [](status = "success" => data # NULL)
    /\ [][status # "idle" => status' # "idle"]_allVars

\* C20 witness: the report for the submitted 'kyoto' is shown after the timer
C20_ReportForSubmittedInput ==
    /\ reportEvent.name = "timer"
    /\ submitted = <<"k", "y", "o", "t", "o">>
    /\ status = "success"
    /\ data # NULL
    /\ data.location = <<"K", "y", "o", "t", "o">>

\* C21: at most one generation is pending at any time.  While status is
\* 'loading' the input and the submit button are disabled: no submit starts
\* a second timer and the input value does not change before the pending
\* timer fires.
C21_OneGenerationPending ==
    /\ [](Len(timers) <= 1)
    /\ [](status = "loading" =>
            /\ InputDisabled
            /\ ButtonDisabled
            /\ Len(timers) = 1
            /\ timers[1].inputValue = inputValue)
    /\ [][status = "loading" =>
            /\ inputValue' = inputValue
            /\ reportEvent'.name \notin {"submit", "change"}
            /\ Len(timers') <= Len(timers)]_allVars

\* C21 witness: a second generation is pending, its timer partly run, with
\* the first report still held
C21_SecondGenerationPending ==
    /\ status = "loading"
    /\ data # NULL
    /\ Len(timers) = 1
    /\ timers[1].left > 0
    /\ timers[1].left < 1500

(***************************************************************************)
(* Claims about pseudoRandom and generateMockData (SpecGen).               *)
(***************************************************************************)
PseudoRandomCalled == lastCall.fn = "pseudoRandom"
Generated == lastCall.fn = "generateMockData"

\* 31 * a, and the hash the claim describes after each character
Times31(a) == Big(a.hi * 31 + ((a.lo * 31) \div Limb), (a.lo * 31) % Limb)

RECURSIVE WrappingHash(_)
WrappingHash(seed) ==
    IF seed = <<>> THEN BigOf(0)
    ELSE ToInt32(BigAdd(Times31(WrappingHash(SubSeq(seed, 1, Len(seed) - 1))),
                        BigOf(CharCode(seed[Len(seed)]))))

\* C17: the hash of pseudoRandom is the 32-bit-wrapping polynomial hash: after
\* each character it equals (31 * previous hash + char code) wrapped to a
\* signed 32-bit integer, and the empty string hashes to 0.
C17_HashWraps32 ==
    PseudoRandomCalled =>
        /\ \A n \in 1..Len(lastCall.seed) :
              lastCall.hashes[n] = WrappingHash(SubSeq(lastCall.seed, 1, n))
        /\ lastCall.seed = <<>> => Hash(lastCall.seed) = BigOf(0)

\* C15: for a non-empty string pseudoRandom returns v with 0 <= v < 1, and a
\* second call with the same string returns the same value.
C15_UnitRangeAndRepeatable ==
    [][lastCall'.fn = "pseudoRandom" =>
          /\ lastCall'.seed # <<>> =>
                /\ 0 <= lastCall'.result
                /\ lastCall'.result < Units(1)
          /\ (PseudoRandomCalled /\ lastCall.seed = lastCall'.seed) =>
                lastCall'.result = lastCall.result]_allVars

\* C15 witness: a non-empty string drawn twice in a row, the draw not 0
C15_DrawnTwice ==
    /\ PseudoRandomCalled
    /\ lastCall.again
    /\ lastCall.seed # <<>>
    /\ lastCall.result > 0

\* C13: in a generated report humidity is in [40,90), uvIndex is an integer in
\* [0,11) and pressure is in [980,1020).
C13_CurrentRanges ==
    Generated =>
        /\ lastCall.result.current.humidity \in 40..89
        /\ lastCall.result.current.uvIndex \in 0..10
        /\ lastCall.result.current.pressure \in 980..1019

\* C13 witness: a report built from a large humidity draw and a pressure draw
\* of 0
C13_HighHumidity ==
    /\ Generated
    /\ lastCall.result.current.humidity >= 77
    /\ lastCall.result.current.pressure = 980

\* the day after date, by the calendar
Tomorrow(date) ==
    IF date.day < DaysInMonth(date.year, date.month)
    THEN [date EXCEPT !.day = date.day + 1]
    ELSE IF date.month < 12
         THEN [date EXCEPT !.month = date.month + 1, !.day = 1]
         ELSE [year |-> date.year + 1, month |-> 1, day |-> 1]

RECURSIVE DaysAfter(_, _)
DaysAfter(date, n) == IF n = 0 THEN date ELSE Tomorrow(DaysAfter(date, n - 1))

\* C12: a report has exactly 7 forecast entries; the date of entry i (from 0)
\* is the generation day plus i + 1 days, each entry one day after the one
\* before it.
C12_SevenConsecutiveDays ==
    Generated =>
        LET forecast == lastCall.result.forecast
        IN  /\ Len(forecast) = 7
            /\ \A i \in 0..6 :
                  forecast[i + 1].date = DaysAfter(lastCall.result.generatedAt, i + 1)
            /\ \A i \in 1..6 : forecast[i + 1].date = Tomorrow(forecast[i].date)

\* C11: two calls of generateMockData with the same location give, for every
\* day, the same forecast condition and the same precipitation; the fields of
\* the report itself may differ.
C11_DayDrawsRepeat ==
    [][(Generated /\ lastCall'.fn = "generateMockData"
            /\ lastCall'.location = lastCall.location) =>
          \A d \in 1..ForecastDays :
              /\ lastCall'.result.forecast[d].condition
                    = lastCall.result.forecast[d].condition
              /\ lastCall'.result.forecast[d].precipitation
                    = lastCall.result.forecast[d].precipitation]_allVars

\* C11 witness: the second of two calls for one location, whose report differs
\* from the first one's in the fields of the report itself
C11_SecondReportDiffers ==
    /\ Generated
    /\ lastCall.again
    /\ lastCall.changed

\* C22: every forecast entry has lowTemp <= highTemp - 5, and its
\* precipitation is an integer in [0,100).
C22_LowBelowHigh ==
    Generated =>
        \A d \in 1..Len(lastCall.result.forecast) :
            /\ lastCall.result.forecast[d].lowTemp
                  <= lastCall.result.forecast[d].highTemp - 5
            /\ lastCall.result.forecast[d].precipitation \in 0..99

\* C22 witness: a report with a day whose low is exactly 5 below its high
\* (day draw 0) and a day with precipitation of 75 or more
C22_TightAndWetDays ==
    /\ Generated
    /\ \E d \in 1..ForecastDays :
          /\ lastCall.result.forecast[d].lowTemp
                = lastCall.result.forecast[d].highTemp - 5
          /\ lastCall.result.forecast[d].precipitation = 0
    /\ \E d \in 1..ForecastDays :
          lastCall.result.forecast[d].precipitation >= 75

====
